---- MODULE Spec2Model ----
(***************************************************************************)
(* A model of walla-bot.py: the pagination loop (load_all_results), the    *)
(* card extractor (extract_new_ads), the seen-ads file (load_seen_ads,     *)
(* save_seen_ad) and the orchestrator (main).                              *)
(*                                                                         *)
(* Python strings are modelled as sequences of one-character strings, so   *)
(* that split, replace, strip and float are computed as the code computes  *)
(* them.  "EUR" stands for the euro sign and "NBSP" for U+00A0.            *)
(***************************************************************************)
EXTENDS Integers, Sequences, FiniteSets, TLC

(***************************************************************************)
(* Bounds of the model.                                                    *)
(***************************************************************************)
NumTerms == 2
MaxCards == 2
MaxIter == 4
MaxRuns == 2
MaxResultsCap == 2

(***************************************************************************)
(* Python string operations.                                               *)
(***************************************************************************)
Range(s) == {s[i] : i \in DOMAIN s}

RECURSIVE LastIndexOf(_, _, _)
LastIndexOf(s, c, i) ==
    IF i = 0 THEN 0
    ELSE IF s[i] = c THEN i ELSE LastIndexOf(s, c, i - 1)

\* href.split('/')[-1]: the text after the last '/', the whole text if none.
SplitLast(s, c) ==
    LET j == LastIndexOf(s, c, Len(s))
    IN  IF j = Len(s) THEN << >> ELSE SubSeq(s, j + 1, Len(s))

\* s.replace(c, r) for a one-character c and a replacement text r.
RECURSIVE Replace(_, _, _)
Replace(s, c, r) ==
    IF s = << >> THEN << >>
    ELSE (IF Head(s) = c THEN r ELSE <<Head(s)>>) \o Replace(Tail(s), c, r)

Whitespace == {" ", "NBSP", "\n"}

RECURSIVE LStrip(_)
LStrip(s) ==
    IF s # << >> /\ Head(s) \in Whitespace THEN LStrip(Tail(s)) ELSE s

RECURSIVE RStrip(_)
RStrip(s) ==
    IF s # << >> /\ s[Len(s)] \in Whitespace
    THEN RStrip(SubSeq(s, 1, Len(s) - 1)) ELSE s

\* str.strip(): U+00A0 is whitespace for Python.
Strip(s) == RStrip(LStrip(s))

(***************************************************************************)
(* float(text).  A float is [kind, neg, mant, scale]: kind "fin" is the    *)
(* number (-1)^neg * mant / 10^scale with no trailing zero in the          *)
(* fraction; kinds "inf" and "nan" are Python's inf and nan.  Exponents    *)
(* and digit-group underscores are outside the alphabet of the model.      *)
(***************************************************************************)
Digits == {"0", "1", "2", "3", "4", "5", "6", "7", "8", "9"}

DigitVal(c) ==
    CASE c = "0" -> 0 [] c = "1" -> 1 [] c = "2" -> 2 [] c = "3" -> 3
      [] c = "4" -> 4 [] c = "5" -> 5 [] c = "6" -> 6 [] c = "7" -> 7
      [] c = "8" -> 8 [] c = "9" -> 9

RECURSIVE DigitsToNat(_)
DigitsToNat(s) ==
    IF s = << >> THEN 0
    ELSE 10 * DigitsToNat(SubSeq(s, 1, Len(s) - 1)) + DigitVal(s[Len(s)])

RECURSIVE Normalize(_, _)
Normalize(mant, scale) ==
    IF scale > 0 /\ mant % 10 = 0 THEN Normalize(mant \div 10, scale - 1)
    ELSE [mant |-> mant, scale |-> scale]

NoFloat == [ok |-> FALSE, kind |-> "none", neg |-> FALSE, mant |-> 0, scale |-> 0]

Finite(neg, m, sc) ==
    LET n == Normalize(m, sc)
    IN  [ok |-> TRUE, kind |-> "fin", neg |-> neg, mant |-> n.mant, scale |-> n.scale]

ParseUnsigned(neg, u) ==
    IF u = <<"i", "n", "f">>
    THEN [ok |-> TRUE, kind |-> "inf", neg |-> neg, mant |-> 0, scale |-> 0]
    ELSE IF u = <<"n", "a", "n">>
    THEN [ok |-> TRUE, kind |-> "nan", neg |-> neg, mant |-> 0, scale |-> 0]
    ELSE LET dots == {i \in DOMAIN u : u[i] = "."}
             d    == IF dots = {} THEN Len(u) + 1 ELSE CHOOSE i \in dots : TRUE
             ip   == SubSeq(u, 1, d - 1)
             fp   == SubSeq(u, d + 1, Len(u))
         IN  IF /\ Cardinality(dots) <= 1
                /\ Range(ip) \cup Range(fp) \subseteq Digits
                /\ Len(ip) + Len(fp) >= 1
             THEN Finite(neg, DigitsToNat(ip \o fp), Len(fp))
             ELSE NoFloat

\* float(s): surrounding whitespace is ignored, one optional sign.
ParseFloat(s) ==
    LET t == Strip(s)
    IN  IF t = << >> THEN NoFloat
        ELSE IF Head(t) = "-" THEN ParseUnsigned(TRUE, Tail(t))
        ELSE IF Head(t) = "+" THEN ParseUnsigned(FALSE, Tail(t))
        ELSE ParseUnsigned(FALSE, t)

\* A normalisation that leaves the thousands separators in.
NormalizePriceKeepDots(price_text) ==
    Replace(Strip(Replace(Replace(price_text, "EUR", << >>), ",", <<".">>)),
            "NBSP", << >>)

\* The price normalisation of extract_new_ads.
NormalizePrice(price_text) ==
    Replace(Strip(Replace(Replace(Replace(price_text, "EUR", << >>),
                                  ".", << >>), ",", <<".">>)),
            "NBSP", << >>)

(***************************************************************************)
(* A rendered card, as the WebDriver shows it to extract_new_ads.  An      *)
(* optional value is [none, s]: none for Python's None or for an element   *)
(* that find_element does not find (NoSuchElementException).               *)
(***************************************************************************)
None == [none |-> TRUE, s |-> << >>]
Some(s) == [none |-> FALSE, s |-> s]

\* Python truthiness of an optional string: None and "" are false.
Truthy(o) == ~o.none /\ o.s # << >>

Card(stale, href, title, title_el, price_el, img) ==
    [stale |-> stale, href |-> href, title |-> title, title_el |-> title_el,
     price_el |-> price_el, img |-> img]

\* Python's s[:n].
Take(s, n) ==
    IF n >= 0 THEN SubSeq(s, 1, IF n < Len(s) THEN n ELSE Len(s))
    ELSE SubSeq(s, 1, Len(s) + n)

item_id(card) == SplitLast(card.href.s, "/")

\* A dedup gate that looks the link up instead of the id.
SeenGateByLink(card, seen) == card.href.s \in seen

\* The dedup gate: item_id in seen_ads.
SeenGate(card, seen) == item_id(card) \in seen

\* What the loop body of extract_new_ads does with one card.
CardOutcome(card, seen) ==
    IF card.stale THEN "error"                    \* get_attribute raises
    ELSE IF ~Truthy(card.href) THEN "no_href"
    ELSE IF SeenGate(card, seen) THEN "seen"
    ELSE IF ~Truthy(card.title) /\ card.title_el.none THEN "no_title"
    ELSE IF card.price_el.none THEN "error"       \* NoSuchElementException
    ELSE IF ~ParseFloat(NormalizePrice(card.price_el.s)).ok THEN "bad_price"
    ELSE "new"

ad_details(card, save_images) ==
    [id        |-> item_id(card),
     title     |-> IF Truthy(card.title) THEN card.title.s ELSE card.title_el.s,
     price     |-> ParseFloat(NormalizePrice(card.price_el.s)),
     link      |-> card.href.s,
     image_url |-> IF save_images THEN card.img ELSE None]

\* An extraction that a card's exception ends: the cards after it are lost.
RECURSIVE ExtractFromAbort(_, _, _)
ExtractFromAbort(cs, seen, save_images) ==
    IF cs = << >> \/ CardOutcome(Head(cs), seen) = "error" THEN << >>
    ELSE (IF CardOutcome(Head(cs), seen) = "new"
          THEN <<ad_details(Head(cs), save_images)>> ELSE << >>)
         \o ExtractFromAbort(Tail(cs), seen, save_images)

\* The for loop of lines 194-225: the records of the cards accepted, in order.
RECURSIVE ExtractFrom(_, _, _)
ExtractFrom(cs, seen, save_images) ==
    IF cs = << >> THEN << >>
    ELSE (IF CardOutcome(Head(cs), seen) = "new"
          THEN <<ad_details(Head(cs), save_images)>> ELSE << >>)
         \o ExtractFrom(Tail(cs), seen, save_images)

\* extract_new_ads(driver, seen_ads, config), product_cards being the page.
extract_new_ads(product_cards, seen, cfg) ==
    ExtractFrom(Take(product_cards, cfg.max_results), seen, cfg.save_images)

Ids(ads) == {ads[i].id : i \in DOMAIN ads}

(***************************************************************************)
(* The seen-ads file: a sequence of lines, each an id followed by "\n".    *)
(* A file that does not exist reads like an empty one.                     *)
(***************************************************************************)
load_seen_ads(file) == {Strip(file[i]) : i \in DOMAIN file}

save_seen_ad(file, id) == Append(file, id \o <<"\n">>)

(***************************************************************************)
(* The cards a page of the model can show.  WebDriver's href is a          *)
(* serialised URL, so it holds no whitespace.                              *)
(***************************************************************************)
T(s) == Some(<<s>>)
Price5 == Some(<<"5", " ", "EUR">>)

CardA    == Card(FALSE, Some(<<"/", "a">>), T("t"), None, Price5, T("i"))
CardB    == Card(FALSE, Some(<<"/", "b">>), None, T("u"), Price5, None)
CardBad  == Card(FALSE, Some(<<"/", "c">>), T("t"), None, None, None)

Catalogue == {CardA, CardB, CardBad}

PagesOf(cat, n) == UNION {[1..m -> cat] : m \in 0..n}

Configs ==
    [max_results : 1..MaxResultsCap, save_images : BOOLEAN, send_email : BOOLEAN]

(***************************************************************************)
(* The state: the durable file, the browser's page, main's locals, the     *)
(* locals of load_all_results, and history variables (sess, notified,      *)
(* prevNotified, iter, triggers, scrolls, lastChange, stopReason,          *)
(* quitCount, uncaught) that record what the run did.                      *)
(***************************************************************************)
VARIABLES
    run,            \* number of the process run
    pc,             \* position in main
    config,         \* config.json
    term,           \* index of the search term of the for loop, 0 before it
    cards,          \* a.ItemCardList__item elements of the page, in order
    last_count, attempts_without_growth, current,
    iter, triggers, scrolls, lastChange, stopReason,
    seenFile,       \* data/seen_ads.txt
    seen_ads, new_ads, all_new_ads, unique_ads,
    k,              \* index of the for loop of lines 359-360
    summary,        \* the count of the summary log line, -1 before it
    sess,           \* per term: the session's step and what it invoked
    notified,       \* ids handed to send_email_alert in this run, in order
    prevNotified,   \* ids handed to send_email_alert in earlier runs
    quitCount,      \* calls of driver.quit()
    uncaught        \* an exception left main

expandVars == <<last_count, attempts_without_growth, current,
                iter, triggers, scrolls, lastChange, stopReason>>
dataVars == <<seenFile, seen_ads, new_ads, all_new_ads, unique_ads, k, summary>>
histVars == <<notified, prevNotified, quitCount, uncaught>>
vars == <<run, pc, config, term, cards, expandVars, dataVars, sess, histVars>>

NoSession == [st |-> "NotStarted", nNew |-> -1, exported |-> 0, sends |-> 0,
              appends |-> 0]

Step(st) == sess' = [sess EXCEPT ![term].st = st]

\* The locals of load_all_results outside a call of it.
NoExpand ==
    /\ last_count' = 0 /\ attempts_without_growth' = 0 /\ current' = 0
    /\ iter' = 0 /\ triggers' = 0 /\ scrolls' = 0 /\ lastChange' = 0
    /\ stopReason' = "none"

\* A raised exception leaves the for loop for the handler of its kind.
Raise(kind) ==
    /\ pc' = IF kind = "Timeout" THEN "except_timeout" ELSE "except_exception"
    /\ Step("Failed")
    /\ NoExpand

Init ==
    /\ run = 1
    /\ pc = "loop"
    /\ config \in Configs
    /\ term = 0
    /\ cards = << >>
    /\ last_count = 0 /\ attempts_without_growth = 0 /\ current = 0
    /\ iter = 0 /\ triggers = 0 /\ scrolls = 0 /\ lastChange = 0
    /\ stopReason = "none"
    /\ seenFile = << >>
    /\ seen_ads = {} /\ new_ads = << >> /\ all_new_ads = << >>
    /\ unique_ads = << >> /\ k = 0 /\ summary = -1
    /\ sess = [t \in 1..NumTerms |-> NoSession]
    /\ notified = << >> /\ prevNotified = {}
    /\ quitCount = 0 /\ uncaught = FALSE

(***************************************************************************)
(* load_all_results: one action per iteration of its while loop.           *)
(***************************************************************************)
StallLimit == 2

\* A target test that misses the count equal to the target.
TargetReachedStrict(cur, max_results) == cur > max_results

\* Line 175.
TargetReached(cur, max_results) == cur >= max_results

\* A stall test that gives up at the first iteration without growth.
StalledEarly(attempts) == attempts >= StallLimit - 1

\* A stall test that waits for one more iteration.
StalledLate(attempts) == attempts >= StallLimit + 1

\* Line 181.
Stalled(attempts) == attempts >= StallLimit

\* What the page can show after one more trigger and scroll.
Render(cs) ==
    {cs}
    \cup (IF Len(cs) < MaxCards THEN {Append(cs, c) : c \in Catalogue} ELSE {})
    \cup (IF Len(cs) > 0 THEN {SubSeq(cs, 1, Len(cs) - 1)} ELSE {})

ExpandIterOk ==
    /\ pc = "expand"
    /\ iter < MaxIter
    /\ \E page \in Render(cards) :
         LET cur == Len(page)
             noGrowth == cur = last_count
             att == IF noGrowth THEN attempts_without_growth + 1 ELSE 0
         IN  /\ cards' = page
             /\ current' = cur
             /\ iter' = iter + 1
             /\ triggers' = triggers + 1
             /\ scrolls' = scrolls + 1
             /\ lastChange' = IF iter = 0 \/ cur # current THEN iter + 1
                              ELSE lastChange
             /\ IF TargetReached(cur, config.max_results)
                THEN /\ stopReason' = "target"
                     /\ pc' = "screenshot"
                     /\ UNCHANGED <<last_count, attempts_without_growth>>
                ELSE IF noGrowth /\ Stalled(att)
                THEN /\ stopReason' = "exhausted"
                     /\ pc' = "screenshot"
                     /\ attempts_without_growth' = att
                     /\ UNCHANGED last_count
                ELSE /\ stopReason' = "none"
                     /\ pc' = "expand"
                     /\ attempts_without_growth' = att
                     /\ last_count' = cur
    /\ UNCHANGED <<run, config, term, dataVars, sess, histVars>>

ExpandIterFault ==
    /\ pc = "expand"
    /\ iter < MaxIter
    /\ \E kind \in {"Timeout", "Exception"} : Raise(kind)
    /\ UNCHANGED <<run, config, term, cards, dataVars, histVars>>

(***************************************************************************)
(* main: the for loop over the search terms, one action per statement      *)
(* that can raise.                                                         *)
(***************************************************************************)
\* Lines 306-321: the next search term, or the end of the loop.
ForNext ==
    /\ pc = "loop"
    /\ IF term < NumTerms
       THEN /\ term' = term + 1
            /\ pc' = "navigate"
       ELSE /\ pc' = "summary"
            /\ UNCHANGED term
    /\ UNCHANGED <<run, config, cards, expandVars, dataVars, sess, histVars>>

\* Line 322: driver.get(url).
Navigate ==
    /\ pc = "navigate"
    /\ \/ /\ cards' \in PagesOf(Catalogue, 1)
          /\ pc' = "cookies"
          /\ Step("Navigated")
          /\ UNCHANGED expandVars
       \/ /\ \E kind \in {"Timeout", "Exception"} : Raise(kind)
          /\ UNCHANGED cards
    /\ UNCHANGED <<run, config, term, dataVars, histVars>>

\* Lines 323-329: the consent banner (its timeout is caught), then the call
\* of load_all_results, which sets its locals.
Cookies ==
    /\ pc = "cookies"
    /\ \/ /\ pc' = "expand"
          /\ Step("CookiesResolved")
          /\ NoExpand
       \/ Raise("Exception")
    /\ UNCHANGED <<run, config, term, cards, dataVars, histVars>>

\* Lines 330-334: the audit capture.  save_screenshot returns False when the
\* file cannot be written, which main does not look at, and raises when the
\* browser does not deliver the image.
Screenshot ==
    /\ pc = "screenshot"
    /\ \/ /\ pc' = "load_seen"
          /\ Step("Expanded")
          /\ NoExpand
       \/ \E kind \in {"Timeout", "Exception"} : Raise(kind)
    /\ UNCHANGED <<run, config, term, cards, dataVars, histVars>>

\* Line 335.
LoadSeen ==
    /\ pc = "load_seen"
    /\ \/ /\ seen_ads' = load_seen_ads(seenFile)
          /\ pc' = "extract"
          /\ UNCHANGED <<sess, expandVars>>
       \/ /\ Raise("Exception")
          /\ UNCHANGED seen_ads
    /\ UNCHANGED <<run, config, term, cards, seenFile, new_ads,
                   all_new_ads, unique_ads, k, summary, histVars>>

\* A main that goes from extraction to the e-mail, past the export.
AfterExtractNotify == "notify"

\* Lines 340-341: what follows a non-empty extraction.
AfterExtract == "export"

\* A main without the test of line 337.
NoNewAdsUnchecked(ads) == FALSE

\* Line 337: if not new_ads.
NoNewAds(ads) == ads = << >>

\* Lines 336-340: extraction; no new ads: continue with the next term.
Extract ==
    /\ pc = "extract"
    /\ \/ LET ads == extract_new_ads(cards, seen_ads, config)
          IN  /\ new_ads' = ads
              /\ UNCHANGED expandVars
              /\ IF NoNewAds(ads)
                 THEN /\ pc' = "loop"
                      /\ sess' = [sess EXCEPT ![term].st = "Done",
                                              ![term].nNew = Len(ads)]
                 ELSE /\ pc' = AfterExtract
                      /\ sess' = [sess EXCEPT ![term].st = "Extracted",
                                              ![term].nNew = Len(ads)]
       \/ /\ \E kind \in {"Timeout", "Exception"} : Raise(kind)
          /\ UNCHANGED new_ads
    /\ UNCHANGED <<run, config, term, cards, seenFile, seen_ads,
                   all_new_ads, unique_ads, k, summary, histVars>>

\* Lines 341-354: the images, then the CSV file.
Export ==
    /\ pc = "export"
    /\ \/ /\ pc' = "notify"
          /\ sess' = [sess EXCEPT ![term].st = "Exported",
                                  ![term].exported = @ + 1]
          /\ UNCHANGED expandVars
       \/ Raise("Exception")
    /\ UNCHANGED <<run, config, term, cards, dataVars, histVars>>

\* A main that never sends.
SendEmailNever(cfg) == FALSE

\* Line 355: config.get('send_email', True).
SendEmail(cfg) == cfg.send_email

\* Lines 355-358: send_email_alert, unless send_email is false.  A failure
\* of the SMTP dialogue is caught inside it.
Notify ==
    /\ pc = "notify"
    /\ \/ /\ pc' = "persist"
          /\ k' = 1
          /\ UNCHANGED expandVars
          /\ IF SendEmail(config)
             THEN /\ notified' = notified \o [i \in DOMAIN new_ads |-> new_ads[i].id]
                  /\ sess' = [sess EXCEPT ![term].st = "Notified",
                                          ![term].sends = @ + 1]
             ELSE /\ UNCHANGED notified
                  /\ Step("Notified")
       \/ /\ SendEmail(config)
          /\ Raise("Exception")
          /\ UNCHANGED <<k, notified>>
    /\ UNCHANGED <<run, config, term, cards, seenFile, seen_ads,
                   new_ads, all_new_ads, unique_ads, summary, prevNotified,
                   quitCount, uncaught>>

\* Lines 359-360: one save_seen_ad per new ad.
Persist ==
    /\ pc = "persist"
    /\ k <= Len(new_ads)
    /\ \/ /\ seenFile' = save_seen_ad(seenFile, new_ads[k].id)
          /\ k' = k + 1
          /\ sess' = [sess EXCEPT ![term].appends = @ + 1]
          /\ UNCHANGED <<pc, expandVars>>
       \/ /\ Raise("Exception")
          /\ UNCHANGED <<seenFile, k>>
    /\ UNCHANGED <<run, config, term, cards, seen_ads, new_ads,
                   all_new_ads, unique_ads, summary, histVars>>

\* Lines 361-362: the end of the loop body.
Extend ==
    /\ pc = "persist"
    /\ k > Len(new_ads)
    /\ all_new_ads' = all_new_ads \o new_ads
    /\ pc' = "loop"
    /\ Step("Done")
    /\ UNCHANGED <<run, config, term, cards, expandVars, seenFile, seen_ads,
                   new_ads, unique_ads, k, summary, histVars>>

\* A merge that keeps every ad, duplicates of an id included.
UniqueByIdKeepAll(ads, all) == ads

\* {ad['id']: ad for ad in all_new_ads}.values(): the last ad of each id, in
\* the order in which the ids first occur.
RECURSIVE UniqueById(_, _)
UniqueById(ads, all) ==
    IF ads = << >> THEN << >>
    ELSE LET id == Head(ads).id
             last == CHOOSE i \in DOMAIN all :
                        /\ all[i].id = id
                        /\ \A j \in DOMAIN all : all[j].id = id => j <= i
             rest == SelectSeq(Tail(ads), LAMBDA a : a.id # id)
         IN  <<all[last]>> \o UniqueById(rest, all)

\* Lines 363-366: the summary line.
Summary ==
    /\ pc = "summary"
    /\ unique_ads' = UniqueById(all_new_ads, all_new_ads)
    /\ summary' = Len(unique_ads')
    /\ pc' = "finally"
    /\ UNCHANGED <<run, config, term, cards, expandVars, seenFile, seen_ads,
                   new_ads, all_new_ads, k, sess, histVars>>

\* driver.quit() after the try statement instead of in its finally clause:
\* an exception raised in a handler passes it by.
HandlerExitNoFinally(raised) == IF raised THEN "done" ELSE "finally"

\* Where control goes when a handler ends, its screenshot having raised or
\* not: the finally clause, in both cases.
HandlerExit(raised) == "finally"

\* Lines 367-372: the handlers; their own screenshot can raise.
ExceptTimeout ==
    /\ pc = "except_timeout"
    /\ \E raised \in BOOLEAN :
         /\ uncaught' = raised
         /\ pc' = HandlerExit(raised)
    /\ UNCHANGED <<run, config, term, cards, expandVars, dataVars, sess,
                   notified, prevNotified, quitCount>>

ExceptException ==
    /\ pc = "except_exception"
    /\ \E raised \in BOOLEAN :
         /\ uncaught' = raised
         /\ pc' = HandlerExit(raised)
    /\ UNCHANGED <<run, config, term, cards, expandVars, dataVars, sess,
                   notified, prevNotified, quitCount>>

\* Lines 373-375.
Finally ==
    /\ pc = "finally"
    /\ quitCount' = quitCount + 1
    /\ pc' = "done"
    /\ UNCHANGED <<run, config, term, cards, expandVars, dataVars, sess,
                   notified, prevNotified, uncaught>>

\* The next run of the program: a new process, the same configuration and
\* the seen-ads file as the last run left it.
NextRun ==
    /\ pc = "done"
    /\ run < MaxRuns
    /\ run' = run + 1
    /\ pc' = "loop"
    /\ term' = 0
    /\ cards' = << >>
    /\ NoExpand
    /\ seen_ads' = {} /\ new_ads' = << >> /\ all_new_ads' = << >>
    /\ unique_ads' = << >> /\ k' = 0 /\ summary' = -1
    /\ sess' = [t \in 1..NumTerms |-> NoSession]
    /\ prevNotified' = prevNotified \cup Range(notified)
    /\ notified' = << >>
    /\ quitCount' = 0 /\ uncaught' = FALSE
    /\ UNCHANGED <<config, seenFile>>

Next ==
    \/ ForNext \/ Navigate \/ Cookies \/ ExpandIterOk \/ ExpandIterFault
    \/ Screenshot \/ LoadSeen \/ Extract \/ Export \/ Notify \/ Persist
    \/ Extend \/ Summary \/ ExceptTimeout \/ ExceptException \/ Finally
    \/ NextRun

Spec == Init /\ [][Next]_vars

(***************************************************************************)
(* Extraction alone: extract_new_ads on a page, the ids of its result      *)
(* written with save_seen_ad (lines 359-360), and extract_new_ads again    *)
(* on the same page with the set that load_seen_ads reads back.            *)
(***************************************************************************)
PriceOf(s) == Some(s)

CardSlash   == Card(FALSE, Some(<<"a", "/">>), T("t"), None, Price5, None)
CardNoHref  == Card(FALSE, None, T("t"), None, Price5, None)
CardStale   == Card(TRUE, Some(<<"/", "a">>), T("t"), None, Price5, None)
CardNoTitle == Card(FALSE, Some(<<"/", "b">>), None, None, Price5, None)
CardJunk    == Card(FALSE, Some(<<"/", "b">>), T("t"), None,
                    PriceOf(<<"x", " ", "EUR">>), None)
CardNeg     == Card(FALSE, Some(<<"/", "b">>), T("t"), None,
                    PriceOf(<<"-", "5", " ", "EUR">>), None)
CardBig     == Card(FALSE, Some(<<"b", "/", "a">>), T("t"), None,
                    PriceOf(<<"1", ".", "2", "3", "4", ",", "5", "6", " ", "EUR">>),
                    T("i"))

Card750     == Card(FALSE, Some(<<"/", "c">>), T("t"), None,
                    PriceOf(<<"7", "5", "0", "NBSP", "EUR">>), None)

ExtractCatalogue ==
    Catalogue \cup {CardSlash, CardNoHref, CardStale, CardNoTitle, CardJunk,
                    CardNeg, CardBig, Card750}

SeenFiles == {<< >>, <<<<"a", "\n">>>>, <<<<"b", "\n">>, <<"\n">>>>}

RECURSIVE SaveAll(_, _)
SaveAll(file, ads) ==
    IF ads = << >> THEN file
    ELSE SaveAll(save_seen_ad(file, Head(ads).id), Tail(ads))

InitExtract ==
    /\ run = 1
    /\ pc = "first_pass"
    /\ config \in {c \in Configs : c.send_email}
    /\ term = 1
    /\ cards \in PagesOf(ExtractCatalogue, MaxCards)
    /\ last_count = 0 /\ attempts_without_growth = 0 /\ current = 0
    /\ iter = 0 /\ triggers = 0 /\ scrolls = 0 /\ lastChange = 0
    /\ stopReason = "none"
    /\ seenFile \in SeenFiles
    /\ seen_ads = load_seen_ads(seenFile)
    /\ new_ads = << >> /\ all_new_ads = << >>
    /\ unique_ads = << >> /\ k = 0 /\ summary = -1
    /\ sess = [t \in 1..NumTerms |-> NoSession]
    /\ notified = << >> /\ prevNotified = {}
    /\ quitCount = 0 /\ uncaught = FALSE

FirstPass ==
    /\ pc = "first_pass"
    /\ new_ads' = extract_new_ads(cards, seen_ads, config)
    /\ all_new_ads' = new_ads'
    /\ seenFile' = SaveAll(seenFile, new_ads')
    /\ pc' = "second_pass"
    /\ UNCHANGED <<run, config, term, cards, expandVars, seen_ads, unique_ads,
                   k, summary, sess, histVars>>

SecondPass ==
    /\ pc = "second_pass"
    /\ seen_ads' = load_seen_ads(seenFile)
    /\ new_ads' = extract_new_ads(cards, seen_ads', config)
    /\ pc' = "passed"
    /\ UNCHANGED <<run, config, term, cards, expandVars, seenFile, all_new_ads,
                   unique_ads, k, summary, sess, histVars>>

NextExtract == FirstPass \/ SecondPass

SpecExtract == InitExtract /\ [][NextExtract]_vars

(***************************************************************************)
(* The merge alone: lines 363-366 on any list that the extends of line 362 *)
(* can have left in all_new_ads, two sessions' records of one id included. *)
(***************************************************************************)
AcceptedRecords ==
    {ad_details(c, si) :
        c \in {x \in ExtractCatalogue : CardOutcome(x, {}) = "new"},
        si \in BOOLEAN}

InitMerge ==
    /\ run = 1
    /\ pc = "summary"
    /\ config \in {c \in Configs : c.send_email /\ c.save_images}
    /\ term = NumTerms
    /\ cards = << >>
    /\ last_count = 0 /\ attempts_without_growth = 0 /\ current = 0
    /\ iter = 0 /\ triggers = 0 /\ scrolls = 0 /\ lastChange = 0
    /\ stopReason = "none"
    /\ seenFile = << >>
    /\ seen_ads = {} /\ new_ads = << >>
    /\ all_new_ads \in PagesOf(AcceptedRecords, MaxCards)
    /\ unique_ads = << >> /\ k = 0 /\ summary = -1
    /\ sess = [t \in 1..NumTerms |-> NoSession]
    /\ notified = << >> /\ prevNotified = {}
    /\ quitCount = 0 /\ uncaught = FALSE

NextMerge == Summary \/ Finally

SpecMerge == InitMerge /\ [][NextMerge]_vars

(***************************************************************************)
(* The claims.                                                             *)
(***************************************************************************)
SeenIds == load_seen_ads(seenFile)

\* C1 (session isolation): when the run has ended, every session that did
\* not fail has run to completion and its accepted records are in the final
\* aggregate.
C1_SessionIsolation ==
    pc = "done" =>
        /\ \A t \in 1..NumTerms : sess[t].st # "Failed" => sess[t].st = "Done"
        /\ Ids(all_new_ads) \subseteq Ids(unique_ads)

\* C2 (summary line): a run that has ended has emitted the summary line with
\* the total of unique new listings.
C2_SummaryAlways == pc = "done" => summary # -1

\* C3 (cleanup): driver.quit() has been called exactly once when the run has
\* ended, and not before, whichever step raised and whether or not the
\* handler's own screenshot raised.
C3_CleanupOnce ==
    /\ pc = "done" => quitCount = 1
    /\ pc # "done" => quitCount = 0

C3_Witness == pc = "done" /\ uncaught /\ quitCount = 1

\* C4 (append on acceptance): while a session exports and notifies, the ids
\* of the records it accepted are already in the seen-ads file.
C4_AppendBeforeExport ==
    pc \in {"export", "notify"} => Ids(new_ads) \subseteq SeenIds

\* C5 (crash consistency): when a run has ended, by a fault or not, every id
\* it handed to the notifier is in the seen-ads file.
C5_NotifiedArePersisted == pc = "done" => Range(notified) \subseteq SeenIds

\* C6 (no duplicate notification): no id is handed to the notifier twice in
\* one run.
C6_NotifiedOnce ==
    \A i, j \in DOMAIN notified : i # j => notified[i] # notified[j]

\* C7 (dedup idempotence): extraction on the same page, after the ids of the
\* first pass were added to the seen set, returns no record.
C7_SecondPassEmpty == pc = "passed" => new_ads = << >>

C7_Witness == pc = "passed" /\ Len(all_new_ads) >= 2 /\ new_ads = << >>

C9_TargetStops ==
    (iter > 0 /\ current >= config.max_results) =>
        /\ pc = "screenshot"
        /\ stopReason = "target"
        /\ triggers = iter /\ scrolls = iter

C9_Witness == pc = "screenshot" /\ iter = 1 /\ stopReason = "target"

\* C10 (empty-result no-op): a session whose extraction returns no record
\* exports nothing, sends nothing, appends nothing, is not failed, and main
\* goes on with the for loop.
C10_EmptyNoOp ==
    \A t \in 1..NumTerms :
        sess[t].nNew = 0 =>
            /\ sess[t].exported = 0 /\ sess[t].sends = 0 /\ sess[t].appends = 0
            /\ sess[t].st = "Done"
            /\ t = term => pc \in {"loop", "summary", "finally", "done"}

C10_Witness ==
    /\ term = 2 /\ sess[1].nNew = 0 /\ sess[2].st = "Navigated"
    /\ seenFile = << >> /\ notified = << >>

\* C11 (cross-term unique count): the total of the summary line is the
\* number of distinct ids among the records of all_new_ads; records that
\* share an id count once.
C11_UniqueCount ==
    summary # -1 =>
        /\ summary = Cardinality(Ids(all_new_ads))
        /\ Ids(unique_ads) = Ids(all_new_ads)

C11_Witness ==
    /\ summary = 1 /\ Len(all_new_ads) = 2
    /\ all_new_ads[1].link # all_new_ads[2].link

\* The prices the claims name, as numbers: mant / 10^scale.
Number(neg, mant, scale) ==
    [ok |-> TRUE, kind |-> "fin", neg |-> neg, mant |-> mant, scale |-> scale]

ExpectedPrice(text) ==
    CASE text = <<"1", ".", "2", "3", "4", ",", "5", "6", " ", "EUR">>
            -> Number(FALSE, 123456, 2)
      [] text = <<"7", "5", "0", "NBSP", "EUR">> -> Number(FALSE, 750, 0)
      [] text = <<"5", " ", "EUR">> -> Number(FALSE, 5, 0)
      [] text = <<"-", "5", " ", "EUR">> -> Number(TRUE, 5, 0)
      [] OTHER -> [ok |-> FALSE]

\* A card that is unseen and has a link, a title and a price element.
HasFields(c, seen) ==
    /\ ~c.stale /\ ~c.href.none /\ c.href.s # << >>
    /\ SplitLast(c.href.s, "/") \notin seen
    /\ (~c.title.none /\ c.title.s # << >>) \/ ~c.title_el.none
    /\ ~c.price_el.none

\* C12 (price normalisation): after a pass, the prices of the records are the
\* numbers that the price texts of the cards with all fields stand for
\* ("1.234,56 EUR" is 1234.56, "750 EUR" is 750.0), in page order; a card
\* whose text is not a number gives no record and the cards after it do.
C12_PriceNormalization ==
    pc = "second_pass" =>
        LET cs == SelectSeq(Take(cards, config.max_results),
                            LAMBDA c : /\ HasFields(c, seen_ads)
                                       /\ ExpectedPrice(c.price_el.s).ok)
        IN  [i \in DOMAIN all_new_ads |-> all_new_ads[i].price]
              = [i \in DOMAIN cs |-> ExpectedPrice(cs[i].price_el.s)]

C12_Witness ==
    /\ pc = "second_pass"
    /\ cards = <<CardJunk, CardBig>>
    /\ Len(all_new_ads) = 1
    /\ all_new_ads[1].price = Number(FALSE, 123456, 2)

\* C13 (distinct ids in a pass): no two records returned by one extraction
\* pass have the same id.
C13_DistinctIds ==
    \A i, j \in DOMAIN new_ads : i # j => new_ads[i].id # new_ads[j].id

\* C14 (id never empty): the id of every record returned by extraction is a
\* non-empty string.
C14_IdNonEmpty == \A i \in DOMAIN new_ads : new_ads[i].id # << >>

\* C15 (price finite and non-negative): the price of every record returned
\* by extraction is a finite number that is not below zero.
C15_PriceNonNegative ==
    \A i \in DOMAIN new_ads :
        /\ new_ads[i].price.kind = "fin"
        /\ ~(new_ads[i].price.neg /\ new_ads[i].price.mant > 0)

\* A card whose processing raises: a failing attribute read or a missing
\* price element.
Raises(c) == c.stale \/ (~c.stale /\ c.price_el.none /\ ~c.href.none
                         /\ c.href.s # << >>
                         /\ ((~c.title.none /\ c.title.s # << >>)
                             \/ ~c.title_el.none))

\* A card that has a link, a title and a price text that is a number.
WellFormed(c) ==
    /\ HasFields(c, {})
    /\ ParseFloat(NormalizePrice(c.price_el.s)).ok

\* C16 (per-card fault isolation): the links of the records of a pass are
\* the links of the well-formed unseen cards among the first max_results
\* cards, in page order, whatever cards raise among them.
C16_CardFaultIsolation ==
    pc = "second_pass" =>
        LET cs == SelectSeq(Take(cards, config.max_results),
                            LAMBDA c : WellFormed(c) /\ HasFields(c, seen_ads))
        IN  [i \in DOMAIN all_new_ads |-> all_new_ads[i].link]
              = [i \in DOMAIN cs |-> cs[i].href.s]

C16_Witness ==
    /\ pc = "second_pass"
    /\ Len(cards) = 2 /\ Raises(cards[1]) /\ config.max_results = 2
    /\ Len(all_new_ads) = 1 /\ all_new_ads[1].link = cards[2].href.s

\* C17 (capture failure is not fatal): no step taken at the audit capture
\* of lines 330-334 fails the session; a session whose capture failed goes
\* on to extraction.
C17_CaptureNonFatal ==
    [][pc = "screenshot" => sess'[term].st # "Failed"]_vars

Rank(st) ==
    CASE st = "NotStarted" -> 0 [] st = "Navigated" -> 1
      [] st = "CookiesResolved" -> 2 [] st = "Expanded" -> 3
      [] st = "Extracted" -> 4 [] st = "Exported" -> 5
      [] st = "Notified" -> 6 [] st = "Done" -> 7 [] st = "Failed" -> 8

\* C18 (step order): within a run, only the session of the current term
\* moves; it moves to the next step of NotStarted, Navigated,
\* CookiesResolved, Expanded, Extracted, Exported, Notified, Done, or to
\* Failed, or from an extraction without records to Done; the CSV is written
\* only right after extraction, the e-mail only right after the CSV, the
\* appends only after the e-mail step; a failed session does nothing more.
C18_StepOrder ==
    [][run' = run =>
        \A t \in 1..NumTerms :
            /\ sess'[t] # sess[t] => t = term
            /\ sess[t].st = "Failed" => sess'[t] = sess[t]
            /\ sess'[t].st # sess[t].st =>
                 \/ sess'[t].st = "Failed"
                 \/ Rank(sess'[t].st) = Rank(sess[t].st) + 1
                 \/ /\ sess[t].st = "Expanded" /\ sess'[t].st = "Done"
                    /\ sess'[t].nNew = 0
            /\ sess'[t].exported # sess[t].exported =>
                 sess[t].st = "Extracted" /\ sess'[t].st = "Exported"
            /\ sess'[t].sends # sess[t].sends =>
                 sess[t].st = "Exported" /\ sess'[t].st = "Notified"
            /\ sess'[t].appends # sess[t].appends =>
                 sess[t].st = "Notified" /\ sess'[t].st = "Notified"]_vars

C18_Witness ==
    /\ pc = "done"
    /\ sess[1].st = "Done" /\ sess[1].exported = 1 /\ sess[1].sends = 1
    /\ sess[1].appends = 2
    /\ sess[2].st = "Failed" /\ sess[2].exported = 1 /\ sess[2].sends = 0

\* C19 as stated (exhausted only after two observed repeats): a stop as
\* "exhausted" comes no sooner than two iterations after the iteration in
\* which the observed count last changed, the first observation included.
C19_ExhaustedAfterTwoObserved ==
    stopReason = "exhausted" => iter >= lastChange + 2

\* C19 as amended: a stop as "exhausted" comes when the count has equalled
\* last_count in two consecutive iterations, last_count being the count of
\* the iteration before or the initial 0: two iterations after the last
\* change, or at iteration 2 of a feed that showed no card at all; an
\* iteration with another count than the one before resets the stall count.
C19_ExhaustedRule ==
    /\ stopReason = "exhausted" =>
         /\ attempts_without_growth = StallLimit
         /\ current = last_count /\ current < config.max_results
         /\ \/ iter >= lastChange + 2
            \/ iter = 2 /\ lastChange = 1 /\ current = 0
    /\ (pc = "expand" /\ iter >= 2 /\ lastChange = iter) =>
         attempts_without_growth = 0

C19_Witness ==
    pc = "screenshot" /\ stopReason = "exhausted" /\ iter = 2 /\ current = 0

====
